---- MODULE Spec2Model ----
(***************************************************************************)
(* surflog: the journal entry store (cmd/journal/service.go, fileService)  *)
(* and the journal list controller (cmd/journal/model.go, Journal).        *)
(*                                                                         *)
(* Two specifications share the variables:                                 *)
(*   Spec       the Journal controller driven by key events, resizes and   *)
(*              insertions, over a store whose calls run to completion     *)
(*              inside the handler (the controller is single-threaded);    *)
(*   StoreSpec  the fileService calls Update and Create taken one file     *)
(*              system step at a time, with a reader (Get, List), failures *)
(*              and crashes interleaved at every step.                     *)
(***************************************************************************)
EXTENDS Integers, Sequences, FiniteSets, Bags, TLC

\* ------------------------------------------------------------- bounds
\* Times are 0..MaxTime; 0 is the zero time.Time.
MaxTime == 2
\* Number of ids uuid.NewString hands out in one behaviour.
MaxCreates == 2
\* Number of those handed out in a behaviour where other operations (key
\* events, Updates) interleave with the creations.
MaxInserts == 1

\* ------------------------------------------------------------- values
\* Entry.ID == "" (an entry without identity).
NoId == 0
\* time.Time{} : IsZero() holds of it, and no other time of the model.
ZeroTime == 0

\* Ids of the files present when the program starts.
PreIds == {1, 2, 3}
Ids == PreIds \cup {Cardinality(PreIds) + n : n \in 1..MaxCreates}
Times == ZeroTime..MaxTime
\* The Entry.Spot values that are blank under strings.TrimSpace; the others
\* in use are "A" and "B".
BlankSpots == {"", " "}

\* Entry.CreatedAt is a string; the model keeps what the code asks of it:
\* whether TrimSpace leaves nothing ("blank"), whether time.Parse(RFC3339)
\* accepts it ("rfc3339", with the instant t) or rejects it ("garbage").
CreatedAtBlank == [kind |-> "blank", t |-> ZeroTime]
CreatedAtGarbage == [kind |-> "garbage", t |-> ZeroTime]
CreatedAtOf(t) == [kind |-> "rfc3339", t |-> t]

\* buoy.WaveSummary, two of its unexported fields; the zero value.
WaveSummary(stationId, wvht) == [stationId |-> stationId, wvht |-> wvht]
NoWave == WaveSummary("", 0)

\* What a time.Time holds besides its instant. Loc: the Location is UTC
\* ("UTC"), or Local on a host whose zone has offset zero ("Local0"), or
\* Local with another offset ("Local+"). Mono: it carries a monotonic clock
\* reading, as the result of time.Now() does.
Locs == {"UTC", "Local0", "Local+"}

\* create.Entry, the fields the store and the controller read: SessionAt is
\* the instant of the time.Time, Loc and Mono the rest of it.
Entry(id, spot, sessionAt, createdAt) ==
    [ID |-> id, Spot |-> spot, SessionAt |-> sessionAt, CreatedAt |-> createdAt,
     Loc |-> "UTC", Mono |-> FALSE, WaveSummary |-> NoWave]
\* create.Entry{} : the zero value returned next to an error.
ZeroEntry == Entry(NoId, "", ZeroTime, CreatedAtBlank)

\* strings.TrimSpace(s) == "" for a CreatedAt / a Spot.
IsBlankCreatedAt(c) == c.kind = "blank"
\* (as IsBlankSpot, but without TrimSpace: only the empty string is blank)
IsEmptySpot(s) == s = ""
IsBlankSpot(s) == s \in BlankSpots

\* time.Now().UTC().Format(time.RFC3339) at instant now.
FormatRFC3339(now) == CreatedAtOf(now)
\* time.Parse(time.RFC3339, strings.TrimSpace(c)) : <<ok, instant>>.
ParseRFC3339(c) ==
    IF c.kind = "rfc3339" THEN [ok |-> TRUE, t |-> c.t] ELSE [ok |-> FALSE, t |-> ZeroTime]

\* WaveSummary.String(): a line printing the heights, never empty.
String(w) == <<w.wvht, "ft sig">>
\* (as MarshalJSON, but relying on encoding/json, which skips unexported fields)
MarshalJSONUnexported(w) ==
    [station_id |-> "", significant_height_m |-> 0, summary |-> String(NoWave)]
\* WaveSummary.MarshalJSON: the waveSummaryDTO of w.
MarshalJSON(w) ==
    [station_id |-> w.stationId, significant_height_m |-> w.wvht, summary |-> String(w)]
\* WaveSummary.UnmarshalJSON: the fields are taken from the DTO, the summary
\* text is dropped.
UnmarshalJSON(dto) == WaveSummary(dto.station_id, dto.significant_height_m)

\* time.Time.MarshalJSON (RFC 3339 with nanoseconds): the instant and the
\* zone offset, "Z" for offset zero; the monotonic reading is not written.
MarshalTime(t, loc) == [t |-> t, zone |-> IF loc = "Local+" THEN "+" ELSE "Z"]
\* time.Time.UnmarshalJSON: "Z" gives UTC, an offset that is Local's gives
\* Local; never a monotonic reading.
UnmarshalTimeLoc(ts) == IF ts.zone = "Z" THEN "UTC" ELSE "Local+"

\* json.MarshalIndent(e, "", "  "): the JSON document of an entry.
MarshalIndent(e) ==
    [id |-> e.ID, spot |-> e.Spot, wave_summary |-> MarshalJSON(e.WaveSummary),
     session_at |-> MarshalTime(e.SessionAt, e.Loc), created_at |-> e.CreatedAt]
\* json.Unmarshal(b, &e) of such a document into a zero create.Entry.
UnmarshalEntry(doc) ==
    [ID |-> doc.id, Spot |-> doc.spot, SessionAt |-> doc.session_at.t,
     CreatedAt |-> doc.created_at, Loc |-> UnmarshalTimeLoc(doc.session_at),
     Mono |-> FALSE, WaveSummary |-> UnmarshalJSON(doc.wave_summary)]

\* ------------------------------------------------------------- files
\* A directory entry is named <id>.json (entryPath) or <id>.json.tmp.
ExtJson == "json"
ExtTmp == "json.tmp"
Exts == {ExtJson, ExtTmp}
Paths == Ids \X Exts

\* What a file holds: nothing (absent), the bytes json.MarshalIndent made of
\* an entry ("entry", e being the entry json.Unmarshal makes of them again),
\* a proper prefix of such bytes ("partial"), bytes
\* that are no JSON object at all ("garbage"), or bytes os.ReadFile cannot
\* get at ("unreadable").
Absent == [kind |-> "absent", e |-> ZeroEntry, mtime |-> ZeroTime]
FileOf(e, mtime) ==
    [kind |-> "entry", e |-> UnmarshalEntry(MarshalIndent(e)), mtime |-> mtime]
PartialFile(mtime) == [kind |-> "partial", e |-> ZeroEntry, mtime |-> mtime]
GarbageFile(mtime) == [kind |-> "garbage", e |-> ZeroEntry, mtime |-> mtime]
UnreadableFile(mtime) == [kind |-> "unreadable", e |-> ZeroEntry, mtime |-> mtime]

\* s.entryPath(id)
entryPath(id) == <<id, ExtJson>>
\* (as tmpPath, but the data is written straight to the entry's own path)
tmpPathInPlace(id) == <<id, ExtJson>>
\* s.entryPath(id) + ".tmp"
tmpPath(id) == <<id, ExtTmp>>

\* (as Unmarshal, but a truncated file decodes to an empty entry)
UnmarshalLenient(f) ==
    IF f.kind \in {"entry", "partial"} THEN [ok |-> TRUE, e |-> f.e]
    ELSE [ok |-> FALSE, e |-> ZeroEntry]
\* json.Unmarshal of a file's bytes: a proper prefix of an indented JSON
\* object lacks its closing brace, so it is rejected like any other garbage.
Unmarshal(f) ==
    IF f.kind = "entry" THEN [ok |-> TRUE, e |-> f.e] ELSE [ok |-> FALSE, e |-> ZeroEntry]

EmptyDir == [p \in Paths |-> Absent]

\* The directories the program may find at start: empty; or two entries (the
\* older one without session time), a file that is no JSON, and a leftover
\* temp file; or two entries with the same session time and an entry without
\* ID; or an unreadable file, a truncated one, one entry and the temp file
\* an interrupted Update of it left behind.
DirMixed ==
    [p \in Paths |->
        CASE p = entryPath(1) -> FileOf(Entry(1, "A", ZeroTime, CreatedAtOf(1)), 1)
          [] p = entryPath(2) -> FileOf(Entry(2, "B", 2, CreatedAtBlank), 2)
          [] p = entryPath(3) -> GarbageFile(1)
          [] p = tmpPath(1) -> PartialFile(1)
          [] OTHER -> Absent]
DirTies ==
    [p \in Paths |->
        CASE p = entryPath(1) -> FileOf(Entry(1, "A", 1, CreatedAtOf(1)), 1)
          [] p = entryPath(2) -> FileOf(Entry(2, "B", 1, CreatedAtOf(2)), 2)
          [] p = entryPath(3) -> FileOf(Entry(NoId, "A", 2, CreatedAtOf(2)), 2)
          [] OTHER -> Absent]
DirBroken ==
    [p \in Paths |->
        CASE p = entryPath(1) -> UnreadableFile(2)
          [] p = entryPath(2) -> PartialFile(1)
          [] p = entryPath(3) -> FileOf(Entry(3, "A", 1, CreatedAtBlank), 1)
          [] p = tmpPath(3) -> FileOf(Entry(3, "B", 1, CreatedAtOf(2)), 2)
          [] OTHER -> Absent]
InitDirs == {EmptyDir, DirMixed, DirTies, DirBroken}

\* ------------------------------------------------------------- fileService
\* Results carry err = "" for a nil error.
Ok(e) == [err |-> "", e |-> e]
Fail(msg) == [err |-> msg, e |-> ZeroEntry]

\* (as Get, but an entry without ID is returned like any other)
GetAnyID(fs, id) ==
    IF id = NoId THEN Fail("empty id")
    ELSE IF fs[entryPath(id)].kind = "absent" THEN Fail("not exist")
    ELSE IF fs[entryPath(id)].kind = "unreadable" THEN Fail("permission")
    ELSE IF ~Unmarshal(fs[entryPath(id)]).ok THEN Fail("unmarshal")
    ELSE Ok(Unmarshal(fs[entryPath(id)]).e)
\* fileService.Get
Get(fs, id) ==
    IF id = NoId THEN Fail("empty id")
    ELSE IF fs[entryPath(id)].kind = "absent" THEN Fail("not exist")
    ELSE IF fs[entryPath(id)].kind = "unreadable" THEN Fail("permission")
    ELSE IF ~Unmarshal(fs[entryPath(id)]).ok THEN Fail("unmarshal")
    ELSE IF Unmarshal(fs[entryPath(id)]).e.ID = NoId THEN Fail("entry missing id")
    ELSE Ok(Unmarshal(fs[entryPath(id)]).e)

\* The *.json names os.ReadDir yields (List's first loop).
JsonFiles(fs) == {p \in Paths : p[2] = ExtJson /\ fs[p].kind # "absent"}

\* sort.Slice by ModTime().After: every order of the names with
\* non-increasing mtime (the sort is not stable, equal mtimes come out in
\* any order). OrdersOf puts one of the newest names of S first.
RECURSIVE OrdersOf(_, _)
OrdersOf(fs, S) ==
    IF S = {} THEN {<<>>}
    ELSE UNION {{<<p>> \o o : o \in OrdersOf(fs, S \ {p})} :
                    p \in {q \in S : \A r \in S : fs[q].mtime >= fs[r].mtime}}
MtimeOrders(fs) == OrdersOf(fs, JsonFiles(fs))

\* List's second loop over one file: skipped, or the entry with CreatedAt
\* backfilled from the mtime.
\* (as Loadable, but without the test for an empty ID)
LoadableAnyID(f) == Unmarshal(f).ok
Loadable(f) == Unmarshal(f).ok /\ Unmarshal(f).e.ID # NoId
Loaded(f) ==
    IF IsBlankCreatedAt(Unmarshal(f).e.CreatedAt)
    THEN [Unmarshal(f).e EXCEPT !.CreatedAt = FormatRFC3339(f.mtime)]
    ELSE Unmarshal(f).e

\* fileService.List over the names in order o.
RECURSIVE ListIn(_, _)
ListIn(fs, o) ==
    IF Len(o) = 0 THEN <<>>
    ELSE (IF Loadable(fs[Head(o)]) THEN <<Loaded(fs[Head(o)])>> ELSE <<>>)
         \o ListIn(fs, Tail(o))
List(fs) == {ListIn(fs, o) : o \in MtimeOrders(fs)}
\* fileService.List with its error: os.ReadDir fails (dirOk is false) and
\* List returns nil and the error, or it returns the entries and nil.
ListCall(fs, dirOk) ==
    IF ~dirOk THEN {[err |-> "readdir", entries |-> <<>>]}
    ELSE {[err |-> "", entries |-> l] : l \in List(fs)}

\* (as stamp, but the ID the caller supplied is kept)
stampKeepingID(e, id, now) ==
    [e EXCEPT !.CreatedAt = IF IsBlankCreatedAt(e.CreatedAt) THEN FormatRFC3339(now)
                            ELSE e.CreatedAt]
\* (as stamp, but the fresh id is given only to an entry that has no ID)
stampKeepingGivenID(e, id, now) ==
    [e EXCEPT !.ID = IF e.ID = NoId THEN id ELSE e.ID,
              !.CreatedAt = IF IsBlankCreatedAt(e.CreatedAt) THEN FormatRFC3339(now)
                            ELSE e.CreatedAt]
\* Create, lines 101-107: the fresh id, and CreatedAt filled when blank.
stamp(e, id, now) ==
    [e EXCEPT !.ID = id,
              !.CreatedAt = IF IsBlankCreatedAt(e.CreatedAt) THEN FormatRFC3339(now)
                            ELSE e.CreatedAt]

\* fileService.Create run to completion with the fresh uuid id at instant
\* now: the set of outcomes [err, e, fs]. os.WriteFile may fail before it
\* creates the file or after it wrote a prefix of the bytes.
CreateOutcomes(fs, e, id, now) ==
    IF IsBlankSpot(e.Spot)
    THEN {[err |-> "spot required", e |-> ZeroEntry, fs |-> fs]}
    ELSE LET stamped == stamp(e, id, now)
         IN  { [err |-> "", e |-> stamped,
                fs |-> [fs EXCEPT ![entryPath(stamped.ID)] = FileOf(stamped, now)]],
               [err |-> "write", e |-> ZeroEntry, fs |-> fs],
               [err |-> "write", e |-> ZeroEntry,
                fs |-> [fs EXCEPT ![entryPath(stamped.ID)] = PartialFile(now)]] }

\* Service.Delete(id): removes the backing file; absence is tolerated; any
\* other failure is an IOError and leaves the file.
DeleteOutcomes(fs, id) ==
    IF fs[entryPath(id)].kind = "absent"
    THEN {[err |-> "", fs |-> fs]}
    ELSE {[err |-> "", fs |-> [fs EXCEPT ![entryPath(id)] = Absent]],
          [err |-> "io", fs |-> fs]}

\* ------------------------------------------------------------- Journal
VARIABLES
    files,              \* the store directory: path -> file
    nextId,             \* the next id uuid.NewString returns
    created,            \* the ids the successful Creates returned, in order
    Entries,            \* Journal.Entries
    items,              \* the items of Journal.list
    cursor,             \* Journal.list.Index() + 1
    ready,              \* Journal.ready
    width, height,      \* Journal.width, Journal.height
    detail,             \* Journal.detail
    svc,                \* Journal.svc != nil
    confirmingDelete,   \* Journal.confirmingDelete
    deleteTargetID,     \* Journal.deleteTargetID
    filterState,        \* Journal.list.FilterState()
    filterText,         \* Journal.list.FilterInput.Value(), a sequence of runes
    filteredItems,      \* the items of Journal.list that match the filter
    pending,            \* the FilterMatchesMsg messages on their way
    draft,              \* the host's *create.Model of the entry wizard
    inflight,           \* the wizard's commands on their way
    nextAddr,           \* the address the next NewModel returns
    eligible,           \* the models that were IsDoneAndUnpersisted
    marked,             \* the models MarkPersisted was called on
    out,                \* the last handler's store call and return value
    call                \* the fileService call in flight (StoreSpec)

filterVars == <<filterState, filterText, filteredItems, pending>>
journalVars == <<Entries, items, cursor, ready, width, height, detail, svc,
                 confirmingDelete, deleteTargetID, filterVars>>
wizardVars == <<draft, inflight, nextAddr, eligible, marked>>
vars == <<files, nextId, created, journalVars, wizardVars, out, call>>

\* parse (in sortEntries): the ordering key of an entry.
parse(e) ==
    IF e.SessionAt # ZeroTime THEN e.SessionAt
    ELSE IF ParseRFC3339(e.CreatedAt).ok THEN ParseRFC3339(e.CreatedAt).t
    ELSE ZeroTime

\* (as less, but with !Before for After)
lessNotBefore(a, b) == parse(a) >= parse(b)
\* (as less, but with Before for After)
lessAscending(a, b) == parse(a) < parse(b)
\* The less function handed to sort.SliceStable: a sorts before b.
less(a, b) == parse(a) > parse(b)

\* (as insertStable, but x goes in front of the elements it ties with, as
\* sort.Slice may put it)
RECURSIVE insertUnstable(_, _)
insertUnstable(s, x) ==
    IF Len(s) = 0 THEN <<x>>
    ELSE IF ~less(Head(s), x) THEN <<x>> \o s
    ELSE <<Head(s)>> \o insertUnstable(Tail(s), x)
\* sort.SliceStable: insert x behind every element that does not sort after it.
RECURSIVE insertStable(_, _)
insertStable(s, x) ==
    IF Len(s) = 0 THEN <<x>>
    ELSE IF less(x, Head(s)) THEN <<x>> \o s
    ELSE <<Head(s)>> \o insertStable(Tail(s), x)
RECURSIVE sortFrom(_, _)
sortFrom(acc, s) ==
    IF Len(s) = 0 THEN acc ELSE sortFrom(insertStable(acc, Head(s)), Tail(s))
\* Journal.sortEntries
sortEntries(s) == sortFrom(<<>>, s)

\* The sizes the host passes to Update: rightPaneWidth is never 0, the
\* height is 0 before the first tea.WindowSizeMsg.
Widths == {40}
Heights == {0, 24}
\* tea.KeyMsg strings, and the one message that is no key.
Keys == {"esc", "enter", "x", "delete", "y", "n", "up", "down"}
Resize == "WindowSizeMsg"
Msgs == Keys \cup {Resize}
\* The message that brings the matches of a filter run back to the list.
FilterMatchesMsg == "FilterMatchesMsg"
\* list.FilterState
Unfiltered == "unfiltered"
Filtering == "filtering"
FilterApplied == "filter applied"
\* The key that opens the filter input, the runes typed into it ("y" is
\* typed when Update lets it through), and list.KeyMap.AcceptWhileFiltering
\* (without "enter", which never reaches the list).
FilterKey == "/"
FilterRunes == {"b", "y"}
AcceptKeys == {"up", "down"}

\* What a handler did: the store call it made (call, id, its error) and
\* what it returned (err: the error, cmd: the tea.Cmd); arg is the mutate
\* function a finished Update was given.
Outcome(op, storeCall, id, callErr, err, cmd) ==
    [op |-> op, call |-> storeCall, id |-> id, callErr |-> callErr, err |-> err,
     cmd |-> cmd, arg |-> ""]
NoOutcome == Outcome("", "", NoId, "", "", "nil")

\* list.Model.SelectedItem(): nil when the index is outside the items.
HasSelectedItem(its, c) == c \in 1..Len(its)
SelectedItem(its, c) == its[c]

\* list.Model.VisibleItems(): the matches while a filter is on.
VisibleItems(its) == IF filterState # Unfiltered THEN filteredItems ELSE its

\* journalItem.FilterValue(): the lower-cased spot, then the text of
\* WaveSummary.String() (of its letters the model keeps those of "avg" and
\* "mean" that a filter over the runes a, b, y can meet), then Comments.
Lower(spot) == IF spot = "A" THEN <<"a">> ELSE IF spot = "B" THEN <<"b">> ELSE <<>>
FilterValue(e) == Lower(e.Spot) \o <<"a", "a">>
\* fuzzy.Find of one target: the runes of the term occur in it in order.
RECURSIVE IsSubseq(_, _)
IsSubseq(t, v) ==
    IF Len(t) = 0 THEN TRUE
    ELSE IF Len(v) = 0 THEN FALSE
    ELSE IF Head(t) = Head(v) THEN IsSubseq(Tail(t), Tail(v))
    ELSE IsSubseq(t, Tail(v))
RECURSIVE Matching(_, _)
Matching(its, text) ==
    IF Len(its) = 0 THEN <<>>
    ELSE (IF IsSubseq(text, FilterValue(Head(its))) THEN <<Head(its)>> ELSE <<>>)
         \o Matching(Tail(its), text)
\* list.filterItems: the matches a filter run over its with the term text
\* sends back; all items for an empty term.
filterItems(its, text) == IF Len(text) = 0 THEN its ELSE Matching(its, text)
\* list.Model.SetItems, its effect on the matches: they are dropped while
\* a filter is on (the command that would recompute them is returned to
\* the caller, and deleteEntry and refreshListItems drop it).
SetItemsMatches == IF filterState # Unfiltered THEN <<>> ELSE filteredItems

\* list.Model.Update for the messages the Journal lets through: the cursor
\* keys move the index inside the items, nothing else changes the list.
listUpdateCursor(msg, its, c) ==
    IF msg = "up" THEN (IF c > 1 THEN c - 1 ELSE 1)
    ELSE IF msg = "down" THEN (IF c < Len(its) THEN c + 1 ELSE IF Len(its) = 0 THEN 1 ELSE Len(its))
    ELSE c

\* ensureList: whether it goes past its first return.
ensures(w, h) == w # 0 /\ h # 0
\* ensureList: Entries and list items after it (built once, when not ready).
ensureEntries(w, h) == IF ensures(w, h) /\ ~ready THEN sortEntries(Entries) ELSE Entries
ensureItems(w, h) == IF ensures(w, h) /\ ~ready THEN sortEntries(Entries) ELSE items

\* (as removeByID, but the entries behind the removed one are lost too)
RECURSIVE removeFromID(_, _)
removeFromID(s, id) ==
    IF Len(s) = 0 THEN <<>>
    ELSE IF Head(s).ID = id THEN <<>>
    ELSE <<Head(s)>> \o removeFromID(Tail(s), id)
\* The removal loop of deleteEntry: the first entry with that ID goes.
RECURSIVE removeByID(_, _)
removeByID(s, id) ==
    IF Len(s) = 0 THEN <<>>
    ELSE IF Head(s).ID = id THEN Tail(s)
    ELSE <<Head(s)>> \o removeByID(Tail(s), id)

\* The rebuild loop of deleteEntry: i runs from len(j.Entries)-1 down to 0.
rebuildItems(s) == [i \in 1..Len(s) |-> s[Len(s) + 1 - i]]

\* (as deleteEntry, but without a service the entry is still removed from
\* Entries and the list)
deleteEntryWithoutService(id, E1, I1) ==
    IF id = NoId
    THEN /\ Entries' = E1
         /\ items' = I1
         /\ files' = files
         /\ out' = Outcome("Update", "", NoId, "", "", "nil")
         /\ UNCHANGED filterVars
    ELSE \E o \in (IF svc THEN DeleteOutcomes(files, id) ELSE {[err |-> "", fs |-> files]}) :
            /\ files' = o.fs
            /\ Entries' = removeByID(E1, id)
            /\ items' = rebuildItems(removeByID(E1, id))
            /\ filteredItems' = SetItemsMatches
            /\ out' = Outcome("Update", IF svc THEN "Delete" ELSE "", id, o.err, "", "nil")
            /\ UNCHANGED <<filterState, filterText, pending>>
\* (as deleteEntry, but the entry under the cursor goes, if there is one)
deleteEntrySelected(id, E1, I1) ==
    LET sel == IF HasSelectedItem(VisibleItems(I1), cursor)
               THEN SelectedItem(VisibleItems(I1), cursor).ID ELSE id
    IN  \E o \in DeleteOutcomes(files, sel) :
            /\ files' = o.fs
            /\ Entries' = removeByID(E1, sel)
            /\ items' = rebuildItems(removeByID(E1, sel))
            /\ filteredItems' = SetItemsMatches
            /\ out' = Outcome("Update", "Delete", sel, o.err, "", "nil")
            /\ UNCHANGED <<filterState, filterText, pending>>
\* Journal.deleteEntry(id), called with the flags already cleared.
deleteEntry(id, E1, I1) ==
    IF id = NoId \/ ~svc
    THEN /\ Entries' = E1
         /\ items' = I1
         /\ files' = files
         /\ out' = Outcome("Update", "", NoId, "", "", "nil")
         /\ UNCHANGED filterVars
    ELSE \E o \in DeleteOutcomes(files, id) :
            /\ files' = o.fs
            /\ Entries' = removeByID(E1, id)
            /\ items' = rebuildItems(removeByID(E1, id))
            /\ filteredItems' = SetItemsMatches
            /\ out' = Outcome("Update", "Delete", id, o.err, "", "nil")
            /\ UNCHANGED <<filterState, filterText, pending>>

\* (as cancelDelete, but the pending entry is dropped from Entries)
cancelDeleteRemoving(E1, I1) ==
    /\ confirmingDelete' = FALSE
    /\ deleteTargetID' = NoId
    /\ Entries' = removeByID(E1, deleteTargetID)
    /\ items' = rebuildItems(removeByID(E1, deleteTargetID))
    /\ out' = Outcome("Update", "", NoId, "", "", "nil")
    /\ UNCHANGED <<files, detail, cursor, filterVars>>
\* (as cancelDelete, but deleteTargetID is left as it is)
cancelDeleteKeepingTarget(E1, I1) ==
    /\ confirmingDelete' = FALSE
    /\ Entries' = E1
    /\ items' = I1
    /\ out' = Outcome("Update", "", NoId, "", "", "nil")
    /\ UNCHANGED <<files, detail, cursor, deleteTargetID, filterVars>>
\* The three places of Update that cancel the confirmation.
cancelDelete(E1, I1) ==
    /\ confirmingDelete' = FALSE
    /\ deleteTargetID' = NoId
    /\ Entries' = E1
    /\ items' = I1
    /\ out' = Outcome("Update", "", NoId, "", "", "nil")
    /\ UNCHANGED <<files, detail, cursor, filterVars>>

\* list.Model.resetFiltering (also behind ResetFilter).
resetFiltering ==
    /\ filterState' = Unfiltered
    /\ filterText' = <<>>
    /\ filteredItems' = <<>>
    /\ UNCHANGED <<cursor, pending>>
\* list.Model.handleFiltering: a key while the filter input is open. An
\* accept key (enabled once the input is not empty) applies the filter, or
\* resets it when nothing matches; a rune is added to the input and a
\* filter run with the new term is started.
handleFiltering(msg, I1) ==
    IF msg \in AcceptKeys /\ Len(filterText) > 0
    THEN IF Len(I1) = 0 THEN UNCHANGED <<cursor, filterVars>>
         ELSE IF Len(filteredItems) = 0 THEN resetFiltering
         ELSE /\ filterState' = FilterApplied
              /\ UNCHANGED <<cursor, filterText, filteredItems, pending>>
    ELSE IF msg \in FilterRunes
    THEN /\ filterText' = Append(filterText, msg)
         /\ pending' = Append(pending, filterItems(I1, Append(filterText, msg)))
         /\ UNCHANGED <<cursor, filterState, filteredItems>>
    ELSE UNCHANGED <<cursor, filterVars>>
\* list.Model.handleBrowsing: "esc" clears an applied filter, the filter
\* key (enabled when there are items) opens the input with the cursor on
\* the first item, the cursor keys move inside the visible items.
handleBrowsing(msg, I1) ==
    IF msg = "esc" /\ filterState = FilterApplied THEN resetFiltering
    ELSE IF msg = FilterKey /\ Len(I1) > 0
    THEN /\ filteredItems' = IF Len(filterText) = 0 THEN I1 ELSE filteredItems
         /\ cursor' = 1
         /\ filterState' = Filtering
         /\ UNCHANGED <<filterText, pending>>
    ELSE /\ cursor' = listUpdateCursor(msg, VisibleItems(I1), cursor)
         /\ UNCHANGED filterVars

\* The end of Update: j.list.Update(msg).
listUpdate(msg, E1, I1) ==
    /\ Entries' = E1
    /\ items' = I1
    /\ out' = Outcome("Update", "", NoId, "", "", "list")
    /\ UNCHANGED <<files, detail, confirmingDelete, deleteTargetID>>
    /\ IF msg = FilterMatchesMsg
       THEN /\ filteredItems' = Head(pending)
            /\ pending' = Tail(pending)
            /\ UNCHANGED <<cursor, filterState, filterText>>
       ELSE IF filterState = Filtering THEN handleFiltering(msg, I1)
       ELSE handleBrowsing(msg, I1)

\* (as openDetail, but the filter is reset on the way)
openDetailResettingFilter(E1, I1) ==
    /\ detail' = TRUE
    /\ Entries' = E1
    /\ items' = I1
    /\ out' = Outcome("Update", "", NoId, "", "", "nil")
    /\ resetFiltering
    /\ UNCHANGED <<files, confirmingDelete, deleteTargetID>>
\* Update, case "enter": the detail flag is set, whatever is selected.
openDetail(E1, I1) ==
    /\ detail' = TRUE
    /\ Entries' = E1
    /\ items' = I1
    /\ out' = Outcome("Update", "", NoId, "", "", "nil")
    /\ UNCHANGED <<files, cursor, confirmingDelete, deleteTargetID, filterVars>>

\* (as beginDelete, but the confirmation starts without a selected item too)
beginDeleteUnchecked(E1, I1) ==
    /\ confirmingDelete' = TRUE
    /\ deleteTargetID' = IF HasSelectedItem(VisibleItems(I1), cursor)
                          THEN SelectedItem(VisibleItems(I1), cursor).ID
                          ELSE deleteTargetID
    /\ Entries' = E1
    /\ items' = I1
    /\ out' = Outcome("Update", "", NoId, "", "", "nil")
    /\ UNCHANGED <<files, cursor, detail, filterVars>>
\* Update, case "x"/"delete" outside a confirmation: the ID of the selected
\* item is captured, if there is one.
beginDelete(E1, I1) ==
    /\ confirmingDelete' = (confirmingDelete \/ HasSelectedItem(VisibleItems(I1), cursor))
    /\ deleteTargetID' = IF HasSelectedItem(VisibleItems(I1), cursor)
                          THEN SelectedItem(VisibleItems(I1), cursor).ID
                          ELSE deleteTargetID
    /\ Entries' = E1
    /\ items' = I1
    /\ out' = Outcome("Update", "", NoId, "", "", "nil")
    /\ UNCHANGED <<files, cursor, detail, filterVars>>

\* Journal.Update(msg, w, h)
Update(msg, w, h) ==
    LET E1 == ensureEntries(w, h)
        I1 == ensureItems(w, h)
    IN  /\ (msg = FilterMatchesMsg) => Len(pending) > 0
        /\ width' = IF ensures(w, h) THEN w ELSE width
        /\ height' = IF ensures(w, h) THEN h ELSE height
        /\ ready' = (ready \/ ensures(w, h))
        /\ UNCHANGED <<nextId, created, svc>>
        /\ IF ~(ready \/ ensures(w, h))
           THEN /\ out' = Outcome("Update", "", NoId, "", "", "nil")
                /\ UNCHANGED <<files, Entries, items, cursor, detail,
                               confirmingDelete, deleteTargetID, filterVars>>
           ELSE CASE msg = "esc" ->
                       IF detail
                       THEN /\ detail' = FALSE
                            /\ Entries' = E1
                            /\ items' = I1
                            /\ out' = Outcome("Update", "", NoId, "", "", "nil")
                            /\ UNCHANGED <<files, cursor, confirmingDelete,
                                           deleteTargetID, filterVars>>
                       ELSE IF confirmingDelete THEN cancelDelete(E1, I1)
                       ELSE IF filterState = Filtering
                       THEN /\ resetFiltering
                            /\ Entries' = E1
                            /\ items' = I1
                            /\ out' = Outcome("Update", "", NoId, "", "", "nil")
                            /\ UNCHANGED <<files, detail, confirmingDelete, deleteTargetID>>
                       ELSE listUpdate(msg, E1, I1)
                  [] msg = "enter" -> openDetail(E1, I1)
                  [] msg \in {"x", "delete"} ->
                       IF confirmingDelete THEN cancelDelete(E1, I1)
                       ELSE beginDelete(E1, I1)
                  [] msg = "y" ->
                       IF confirmingDelete /\ deleteTargetID # NoId
                       THEN /\ confirmingDelete' = FALSE
                            /\ deleteTargetID' = NoId
                            /\ deleteEntry(deleteTargetID, E1, I1)
                            /\ UNCHANGED <<cursor, detail>>
                       ELSE listUpdate(msg, E1, I1)
                  [] msg = "n" ->
                       IF confirmingDelete THEN cancelDelete(E1, I1)
                       ELSE listUpdate(msg, E1, I1)
                  [] OTHER -> listUpdate(msg, E1, I1)

\* Journal.refreshListItems (called with ready set): the items after it.
refreshListItems(E) == sortEntries(E)

\* (as AddEntry, but the new entry is put in front and nothing is sorted)
AddEntryInFront(e) ==
    /\ Entries' = <<e>> \o Entries
    /\ items' = IF ready THEN <<e>> \o Entries ELSE items
    /\ filteredItems' = IF ready THEN SetItemsMatches ELSE filteredItems
    /\ UNCHANGED <<cursor, ready, width, height, detail, svc, confirmingDelete,
                   deleteTargetID, filterState, filterText, pending>>
\* Journal.AddEntry(entry)
AddEntry(e) ==
    /\ Entries' = sortEntries(Append(Entries, e))
    /\ items' = IF ready THEN refreshListItems(sortEntries(Append(Entries, e))) ELSE items
    /\ filteredItems' = IF ready THEN SetItemsMatches ELSE filteredItems
    /\ UNCHANGED <<cursor, ready, width, height, detail, svc, confirmingDelete,
                   deleteTargetID, filterState, filterText, pending>>

\* The entries a caller hands to Persist: spot "A" at any session time with
\* CreatedAt left empty (as the entry form leaves it), spot "B" at the latest
\* session time, spot "B" without session time and with a CreatedAt that
\* time.Parse rejects, and a blank spot.
PersistInputs ==
    {Entry(NoId, "A", t, CreatedAtBlank) : t \in Times}
        \cup {Entry(NoId, "B", MaxTime, CreatedAtBlank),
              Entry(NoId, "B", ZeroTime, CreatedAtGarbage),
              Entry(NoId, " ", MaxTime, CreatedAtBlank)}
\* The instants time.Now() returns while the program runs.
Nows == {MaxTime}

\* (as Persist, but the entry is added also when Create failed)
PersistAddingAnyway(e, now) ==
    /\ nextId \in Ids
    /\ IF ~svc
       THEN /\ out' = Outcome("Persist", "", NoId, "", "journal service unavailable", "")
            /\ UNCHANGED <<files, nextId, created, journalVars>>
       ELSE \E o \in CreateOutcomes(files, e, nextId, now) :
               /\ files' = o.fs
               /\ created' = IF o.err = "" THEN Append(created, o.e.ID) ELSE created
               /\ nextId' = IF o.fs = files THEN nextId ELSE nextId + 1
               /\ out' = Outcome("Persist", "Create", nextId, o.err, o.err, "")
               /\ AddEntry(IF o.err # "" THEN e ELSE o.e)
\* Journal.Persist(entry) at instant now
Persist(e, now) ==
    /\ nextId \in Ids
    /\ IF ~svc
       THEN /\ out' = Outcome("Persist", "", NoId, "", "journal service unavailable", "")
            /\ UNCHANGED <<files, nextId, created, journalVars>>
       ELSE \E o \in CreateOutcomes(files, e, nextId, now) :
               /\ files' = o.fs
               /\ created' = IF o.err = "" THEN Append(created, o.e.ID) ELSE created
               /\ nextId' = IF o.fs = files THEN nextId ELSE nextId + 1
               /\ out' = Outcome("Persist", "Create", nextId, o.err, o.err, "")
               /\ IF o.err # ""
                  THEN UNCHANGED journalVars
                  ELSE AddEntry(o.e)

\* A host without a store inserts an entry it made itself.
Insert(e) ==
    /\ ~svc
    /\ nextId \in Ids
    /\ nextId' = nextId + 1
    /\ AddEntry([e EXCEPT !.ID = nextId])
    /\ out' = Outcome("AddEntry", "", NoId, "", "", "")
    /\ UNCHANGED <<files, created>>

\* A fileService call in flight: which one, where it stands (write,
\* rename; idle when none is), its id, the entry it read (old) and the
\* entry it writes (new).
Call(kind, pc, id, old, new, f) ==
    [kind |-> kind, pc |-> pc, id |-> id, old |-> old, new |-> new, f |-> f]
NoCall == Call("", "idle", NoId, ZeroEntry, ZeroEntry, "")

\* ---- The entry wizard: create.Model, UpdateModel (package create) ----

\* HeightOptions: the options of the perceived wave height.
HeightOptions ==
    <<"Ankle", "Knee", "Waist", "Chest", "Shoulder", "Head", "Overhead">>
\* buildForm: the fields of the form's one group, in order.
FormFields == <<"spot", "height", "comments">>
\* huh.Form.State.
StateNormal == "StateNormal"
StateCompleted == "StateCompleted"
\* The timeStr NewModel sets: today 07:30, formatted "2006-01-02 15:04";
\* and the time parseTimeOrDefault reads from it.
DefaultTimeStr == "today 07:30"
DefaultTime == "today 07:30:00 Local"
parseTimeOrDefault(v) == DefaultTime
\* time.Parse("2006-01-02 15:04", v) succeeds.
ParsesAsTime(v) == v = DefaultTimeStr

\* The address of a *Model; NoAddr is the nil pointer.
NoAddr == 0
\* NewModel: a fresh draft at a new address.
NewModel(addr) ==
    [addr |-> addr,
     Entry |-> [Spot |-> <<>>, WaveHeight |-> "", Comments |-> <<>>,
                WaveSummary |-> FALSE, SessionAt |-> ""],
     field |-> 1, formState |-> StateNormal,
     waveErr |-> FALSE, waveFetched |-> FALSE,
     timeStr |-> DefaultTimeStr, spotStr |-> <<>>,
     heightStr |-> HeightOptions[1], commentsStr |-> <<>>,
     persisted |-> FALSE, completed |-> FALSE, confirmed |-> FALSE,
     lastTimeParsed |-> ""]
\* A nil *Model.
NilModel == [NewModel(NoAddr) EXCEPT !.timeStr = "", !.heightStr = ""]

\* Model.IsDraft and Model.IsDoneAndUnpersisted.
IsDraft(mm) == mm.addr # NoAddr /\ ~mm.completed
IsDoneAndUnpersisted(mm) ==
    mm.addr # NoAddr /\ mm.completed /\ mm.confirmed /\ ~mm.persisted

\* The messages and commands of the wizard. A command of the form yields
\* the message of its name; fetchWaveSummaryCmd yields a waveSummaryMsg
\* with a summary or with an error.
NextField == "nextFieldMsg"
PrevField == "prevFieldMsg"
nextGroup == "nextGroupMsg"
prevGroup == "prevGroupMsg"
fetchWaveSummaryCmd == "fetchWaveSummaryCmd"
WaveOk == "waveSummaryMsg{Summary}"
WaveErr == "waveSummaryMsg{Err}"
waveSummaryMsg == {WaveOk, WaveErr}
CmdMsgs(c) == IF c = fetchWaveSummaryCmd THEN waveSummaryMsg ELSE {c}
FormRunes == {"y", "n"}
WizardKeys == FormRunes \cup {"enter", "esc", "down"}
ConfirmKeys == {"y", "enter"}
DiscardKeys == {"n", "esc"}

\* The index of a height option, and the option below it (the last one
\* stays).
HeightIndex(hs) == CHOOSE i \in 1..Len(HeightOptions) : HeightOptions[i] = hs
HeightBelow(hs) ==
    HeightOptions[IF HeightIndex(hs) < Len(HeightOptions)
                  THEN HeightIndex(hs) + 1 ELSE HeightIndex(hs)]

\* huh.Form.Update on the form of mm: the model with the form's new state
\* (the fields write through to spotStr, heightStr and commentsStr) and the
\* commands it returns. A form that is not in StateNormal takes nothing.
\* "enter" on a field asks for the next field and "shift+tab" for the
\* previous one; the group moves on nextFieldMsg and prevFieldMsg and asks
\* for the next group behind its last field; the form has one group and
\* completes on nextGroupMsg. Runes go to the focused input or text, "down"
\* moves the select.
formUpdate(mm, msg) ==
    LET same == [m |-> mm, cmds |-> <<>>]
        focus == FormFields[mm.field]
    IN  IF mm.formState # StateNormal THEN same
        ELSE CASE msg = nextGroup ->
                    [m |-> [mm EXCEPT !.formState = StateCompleted], cmds |-> <<>>]
               [] msg = NextField ->
                    IF mm.field = Len(FormFields)
                    THEN [m |-> mm, cmds |-> <<nextGroup>>]
                    ELSE [m |-> [mm EXCEPT !.field = @ + 1], cmds |-> <<>>]
               [] msg = PrevField ->
                    IF mm.field = 1
                    THEN [m |-> mm, cmds |-> <<prevGroup>>]
                    ELSE [m |-> [mm EXCEPT !.field = @ - 1], cmds |-> <<>>]
               [] msg = "enter" -> [m |-> mm, cmds |-> <<NextField>>]
               [] msg = "shift+tab" -> [m |-> mm, cmds |-> <<PrevField>>]
               [] msg \in FormRunes /\ focus = "spot" ->
                    [m |-> [mm EXCEPT !.spotStr = Append(@, msg)], cmds |-> <<>>]
               [] msg \in FormRunes /\ focus = "comments" ->
                    [m |-> [mm EXCEPT !.commentsStr = Append(@, msg)], cmds |-> <<>>]
               [] msg = "down" /\ focus = "height" ->
                    [m |-> [mm EXCEPT !.heightStr = HeightBelow(@)], cmds |-> <<>>]
               [] OTHER -> same

\* Model.Update on a model that is not nil: the form takes the message; a
\* form that completed marks the model completed and copies the fields
\* into Entry; otherwise the first call with a time that parses fetches the
\* wave summary.
ModelUpdate(mm, msg) ==
    LET r == formUpdate(mm, msg)
        f == r.m
    IN  IF f.formState = StateCompleted /\ ~f.completed
        THEN [m |-> [f EXCEPT !.completed = TRUE,
                              !.Entry.Spot = f.spotStr,
                              !.Entry.WaveHeight = f.heightStr,
                              !.Entry.Comments = f.commentsStr,
                              !.Entry.SessionAt = parseTimeOrDefault(f.timeStr)],
              cmds |-> r.cmds]
        ELSE IF ~f.waveFetched /\ f.timeStr # f.lastTimeParsed
                /\ ParsesAsTime(f.timeStr)
        THEN [m |-> [f EXCEPT !.lastTimeParsed = f.timeStr],
              cmds |-> r.cmds \o <<fetchWaveSummaryCmd>>]
        ELSE r

\* The confirmation keys taken whether or not the form completed.
atReviewOrBefore(mm) == ~mm.confirmed /\ ~mm.persisted
\* The review step: the form completed, the user neither confirmed nor
\* was the entry persisted.
atReview(mm) == mm.completed /\ ~mm.confirmed /\ ~mm.persisted

\* The ghost record of a wizard step: the addresses of the models that
\* were eligible for persistence at some time.
NoteEligible ==
    eligible' = eligible \cup
        (IF IsDoneAndUnpersisted(draft') THEN {draft'.addr} ELSE {})

\* The commands of the sequence s as a bag: the runtime runs each in its
\* own goroutine, so they are in no order.
Batch(s) == [c \in {s[i] : i \in DOMAIN s} |-> Cardinality({i \in DOMAIN s : s[i] = c})]

\* UpdateModel(m, msg) on the host's model, rest being the commands that
\* stay in flight: a nil model is replaced by a new one; a waveSummaryMsg
\* is stored; at the review step "y" and "enter" confirm and "n" and "esc"
\* return a new model; every other message goes to Model.Update.
UpdateModel(msg, rest) ==
    LET isNil == draft.addr = NoAddr
        m0 == IF isNil THEN NewModel(nextAddr) ELSE draft
        next0 == IF isNil THEN nextAddr + 1 ELSE nextAddr
        r == CASE msg = WaveErr ->
                    [m |-> [m0 EXCEPT !.waveErr = TRUE], cmds |-> <<>>, next |-> next0]
               [] msg = WaveOk ->
                    [m |-> [m0 EXCEPT !.Entry.WaveSummary = TRUE, !.waveFetched = TRUE],
                     cmds |-> <<>>, next |-> next0]
               [] msg \notin waveSummaryMsg /\ atReview(m0) /\ msg \in ConfirmKeys ->
                    [m |-> [m0 EXCEPT !.confirmed = TRUE], cmds |-> <<>>, next |-> next0]
               [] msg \notin waveSummaryMsg /\ atReview(m0) /\ msg \in DiscardKeys ->
                    [m |-> NewModel(next0), cmds |-> <<>>, next |-> next0 + 1]
               [] OTHER ->
                    [next |-> next0] @@ ModelUpdate(m0, msg)
    IN  /\ \E ret \in {r} :
              /\ draft' = ret.m
              /\ nextAddr' = ret.next
              /\ inflight' = rest (+) Batch(ret.cmds)
              /\ out' = [Outcome("UpdateModel", "", NoId, "", "",
                                 IF ret.cmds = <<>> THEN "nil" ELSE "cmd")
                           EXCEPT !.arg = msg]
        /\ NoteEligible
        /\ marked' = marked
        /\ UNCHANGED <<files, nextId, created, journalVars, call>>

\* Model.MarkPersisted, which the host may call on its model at any time.
MarkPersisted ==
    /\ draft' = IF draft.addr = NoAddr THEN draft
                ELSE [draft EXCEPT !.persisted = TRUE]
    /\ marked' = marked \cup ({draft.addr} \ {NoAddr})
    /\ NoteEligible
    /\ out' = Outcome("MarkPersisted", "", NoId, "", "", "")
    /\ UNCHANGED <<nextAddr, inflight>>
    /\ UNCHANGED <<files, nextId, created, journalVars, call>>

\* No wizard is open.
WizardInit ==
    /\ draft = NilModel
    /\ inflight = EmptyBag
    /\ nextAddr = 1
    /\ eligible = {}
    /\ marked = {}

MaxModels == 2
MaxTyped == 1
MaxInFlight == 1
\* The host runs the wizard: keys arrive, the commands in flight deliver
\* their messages in any order, and the host marks the model persisted.
WizardNext ==
    \/ \E k \in WizardKeys :
          /\ UpdateModel(k, inflight)
          /\ nextAddr' <= MaxModels + 1
          /\ BagCardinality(inflight') <= MaxInFlight
          /\ Len(draft'.spotStr) + Len(draft'.commentsStr) <= MaxTyped
    \/ \E c \in BagToSet(inflight) : \E msg \in CmdMsgs(c) :
          /\ UpdateModel(msg, inflight (-) SetToBag({c}))
          /\ nextAddr' <= MaxModels + 1
          /\ BagCardinality(inflight') <= MaxInFlight
    \/ MarkPersisted

\* NewJournal: without a journal.dir there is no service and nothing is
\* loaded; with one, the entries List returns are appended and sorted.
Init ==
    /\ svc \in BOOLEAN
    /\ files \in (IF svc THEN InitDirs ELSE {EmptyDir})
    /\ nextId = Cardinality(PreIds) + 1
    /\ created = <<>>
    /\ Entries \in (IF svc THEN {sortEntries(l) : l \in List(files)} ELSE {<<>>})
    /\ items = <<>>
    /\ cursor = 1
    /\ ready = FALSE
    /\ width = 0
    /\ height = 0
    /\ detail = FALSE
    /\ confirmingDelete = FALSE
    /\ deleteTargetID = NoId
    /\ filterState = Unfiltered
    /\ filterText = <<>>
    /\ filteredItems = <<>>
    /\ pending = <<>>
    /\ WizardInit
    /\ out = NoOutcome
    /\ call = NoCall

Next ==
    \/ \E msg \in Msgs, w \in Widths, h \in Heights : Update(msg, w, h) /\ UNCHANGED <<call, wizardVars>>
    \/ \E e \in PersistInputs, now \in Nows :
          nextId <= Cardinality(PreIds) + MaxInserts /\ Persist(e, now) /\ UNCHANGED <<call, wizardVars>>
    \/ \E e \in PersistInputs :
          nextId <= Cardinality(PreIds) + MaxInserts /\ Insert(e) /\ UNCHANGED <<call, wizardVars>>

Spec == Init /\ [][Next]_vars

\* The Journal over a store whose entries tie in their session time, under
\* insertions of entries that tie with them and with each other, deletions
\* and resizes.
TieInputs ==
    {Entry(NoId, "A", 1, CreatedAtBlank),
     Entry(NoId, "A", MaxTime, CreatedAtBlank),
     Entry(NoId, "B", ZeroTime, CreatedAtGarbage)}
TieMsgs == {"x", "y", "down", Resize}
TieInit == Init /\ svc /\ files = DirTies
TieNext ==
    \/ \E msg \in TieMsgs, w \in Widths, h \in Heights \ {0} :
          Update(msg, w, h) /\ UNCHANGED <<call, wizardVars>>
    \/ \E e \in TieInputs, now \in Nows : Persist(e, now) /\ UNCHANGED <<call, wizardVars>>

TieSpec == TieInit /\ [][TieNext]_vars

\* ------------------------------------------------------------- fileService, step by step
\* The mutate functions handed to Update: nil, one that reports an error
\* (after touching the entry), one that overwrites the ID, one that edits
\* the spot and empties CreatedAt.
Mutators == {"nil", "fail", "setID", "clearID", "edit"}
\* (as mutateFails, but the error of mutate is dropped)
mutateNeverFails(f) == FALSE
\* mutate(&cur) returns an error.
mutateFails(f) == f = "fail"
mutate(f, cur) ==
    CASE f = "setID" -> [cur EXCEPT !.ID = IF cur.ID = 1 THEN 2 ELSE 1]
      [] f = "clearID" -> [cur EXCEPT !.ID = NoId]
      [] f = "edit" -> [cur EXCEPT !.Spot = "B", !.CreatedAt = CreatedAtBlank]
      [] f = "fail" -> [cur EXCEPT !.Spot = "", !.ID = NoId]
      [] OTHER -> cur

\* (as pinID, but the id the mutator left is kept)
pinNothing(cur, id) == cur
\* Update, lines 128-131: the id is pinned again and CreatedAt kept filled.
pinID(cur, id) == [cur EXCEPT !.ID = id]
\* (as keepCreatedAt, but a CreatedAt the mutator blanked stays blank)
keepCreatedAtAsIs(cur, now) == cur
keepCreatedAt(cur, now) ==
    IF IsBlankCreatedAt(cur.CreatedAt) THEN [cur EXCEPT !.CreatedAt = FormatRFC3339(now)] ELSE cur
\* The entry Update marshals.
updated(cur, id, f, now) == keepCreatedAt(pinID(mutate(f, cur), id), now)

\* os.WriteFile, its OpenFile(O_CREATE|O_TRUNC): the file exists and is empty.
openTrunc(fs, p, now) == [fs EXCEPT ![p] = PartialFile(now)]
\* os.WriteFile, its Write of all the bytes.
writeAll(fs, p, e, now) == [fs EXCEPT ![p] = FileOf(e, now)]
\* os.Rename(from, to): to holds what from held, from is gone, in one step.
rename(fs, from, to) ==
    IF from = to THEN fs ELSE [fs EXCEPT ![to] = fs[from], ![from] = Absent]

\* What a finished call returned: err, "" for nil.
Returned(op, err) == Outcome(op, "", NoId, "", err, "")
\* A finished call (given f) returned the entry e and a nil error.
ReturnedEntry(op, e, f) == [Outcome(op, "", e.ID, "", "", "") EXCEPT !.arg = f]
\* The process died inside the call.
Killed(op) == Outcome(op, "", NoId, "", "killed", "")

\* Update up to the opening of the temp file: Get, mutate, pin, marshal,
\* and os.WriteFile's open (which may fail and leave everything as it was).
UpdateBegin(id, f, now) ==
    /\ call = NoCall
    /\ UNCHANGED <<nextId, created, journalVars>>
    /\ IF Get(files, id).err # ""
       THEN /\ out' = Returned("Update", Get(files, id).err)
            /\ call' = NoCall
            /\ files' = files
       ELSE IF mutateFails(f)
       THEN /\ out' = Returned("Update", "mutate")
            /\ call' = NoCall
            /\ files' = files
       ELSE \/ /\ files' = openTrunc(files, tmpPath(id), now)
               /\ call' = Call("Update", "write", id, Get(files, id).e,
                                updated(Get(files, id).e, id, f, now), f)
               /\ out' = NoOutcome
            \/ /\ files' = files
               /\ call' = NoCall
               /\ out' = Returned("Update", "write")

\* os.WriteFile(tmp, data): all bytes written, or the write fails after a
\* prefix and Update returns the error.
UpdateWrite(now) ==
    /\ call.kind = "Update" /\ call.pc = "write"
    /\ UNCHANGED <<nextId, created, journalVars>>
    /\ \/ /\ files' = writeAll(files, tmpPath(call.id), call.new, now)
          /\ call' = [call EXCEPT !.pc = "rename"]
          /\ out' = NoOutcome
       \/ /\ files' = files
          /\ call' = NoCall
          /\ out' = Returned("Update", "write")

\* os.Rename(tmp, s.entryPath(id)), or its failure.
UpdateRename ==
    /\ call.kind = "Update" /\ call.pc = "rename"
    /\ UNCHANGED <<nextId, created, journalVars>>
    /\ \/ /\ files' = rename(files, tmpPath(call.id), entryPath(call.id))
          /\ call' = NoCall
          /\ out' = ReturnedEntry("Update", call.new, call.f)
       \/ /\ files' = files
          /\ call' = NoCall
          /\ out' = Returned("Update", "rename")

\* Create up to the opening of the file: the uuid, the spot check, the
\* CreatedAt stamp, marshal, and os.WriteFile's open.
CreateBegin(e, now) ==
    /\ call = NoCall
    /\ nextId \in Ids
    /\ UNCHANGED <<created, journalVars>>
    /\ IF IsBlankSpot(e.Spot)
       THEN /\ out' = Returned("Create", "spot required")
            /\ call' = NoCall
            /\ UNCHANGED <<files, nextId>>
       ELSE \/ /\ files' = openTrunc(files, entryPath(stamp(e, nextId, now).ID), now)
               /\ call' = Call("Create", "write", stamp(e, nextId, now).ID, ZeroEntry,
                                stamp(e, nextId, now), "")
               /\ nextId' = nextId + 1
               /\ out' = NoOutcome
            \/ /\ call' = NoCall
               /\ out' = Returned("Create", "write")
               /\ UNCHANGED <<files, nextId>>

\* os.WriteFile(s.entryPath(e.ID), data): all bytes written, or the write
\* fails after a prefix and Create returns the error.
CreateWrite(now) ==
    /\ call.kind = "Create" /\ call.pc = "write"
    /\ UNCHANGED <<nextId, journalVars>>
    /\ \/ /\ files' = writeAll(files, entryPath(call.id), call.new, now)
          /\ call' = NoCall
          /\ created' = Append(created, call.new.ID)
          /\ out' = ReturnedEntry("Create", call.new, "")
       \/ /\ files' = files
          /\ call' = NoCall
          /\ created' = created
          /\ out' = Returned("Create", "write")

\* The process is killed in the middle of a call: the files stay as they are.
Crash ==
    /\ call.pc \in {"write", "rename"}
    /\ call' = NoCall
    /\ out' = Killed(call.kind)
    /\ UNCHANGED <<files, nextId, created, journalVars>>

\* (as ListDir, but the CreatedAt that List fills in is written to the file)
ListDirWritingBack(dirOk) ==
    /\ call = NoCall
    /\ \E r \in ListCall(files, dirOk) : out' = Returned("List", r.err)
    /\ files' = [p \in Paths |->
                    IF dirOk /\ p \in JsonFiles(files) /\ Loadable(files[p])
                    THEN FileOf(Loaded(files[p]), files[p].mtime)
                    ELSE files[p]]
    /\ UNCHANGED <<nextId, created, journalVars, call>>
\* fileService.List as a call: os.ReadDir, Info and os.ReadFile only read.
ListDir(dirOk) ==
    /\ call = NoCall
    /\ \E r \in ListCall(files, dirOk) : out' = Returned("List", r.err)
    /\ UNCHANGED <<files, nextId, created, journalVars, call>>

\* The entries Create is called with: one carrying an ID that is already in
\* use and no CreatedAt, one without session time and with a CreatedAt that
\* time.Parse rejects, one with a spot of blanks and one with no spot.
CreateInputs ==
    {Entry(1, "A", MaxTime, CreatedAtBlank),
     Entry(NoId, "B", ZeroTime, CreatedAtGarbage),
     Entry(NoId, " ", MaxTime, CreatedAtBlank),
     Entry(2, "", ZeroTime, CreatedAtGarbage)}

\* Entries as the entry form makes them: a session time built with
\* time.Date in now.Location() on a host in a zone with offset zero, with a
\* wave summary; and as another caller may: a session time from time.Now()
\* in a zone with another offset.
FormInputs ==
    {[Entry(NoId, "A", MaxTime, CreatedAtBlank)
        EXCEPT !.Loc = "Local0", !.WaveSummary = WaveSummary("46221", 1)],
     [Entry(NoId, "B", 1, CreatedAtBlank) EXCEPT !.Loc = "Local+", !.Mono = TRUE]}

\* A store on one of the start directories, no Journal on top of it.
StoreInit ==
    /\ files \in InitDirs
    /\ nextId = Cardinality(PreIds) + 1
    /\ created = <<>>
    /\ call = NoCall
    /\ out = NoOutcome
    /\ svc = FALSE
    /\ Entries = <<>>
    /\ items = <<>>
    /\ cursor = 1
    /\ ready = FALSE
    /\ width = 0
    /\ height = 0
    /\ detail = FALSE
    /\ confirmingDelete = FALSE
    /\ deleteTargetID = NoId
    /\ filterState = Unfiltered
    /\ filterText = <<>>
    /\ filteredItems = <<>>
    /\ pending = <<>>
    /\ WizardInit

\* The ids Update is called with: none, and those of the start directories
\* (which hold an entry, hold something else, or hold nothing under them).
UpdateIds == {NoId} \cup PreIds

StoreNext ==
    \/ \E id \in UpdateIds, f \in Mutators, now \in Nows :
          UpdateBegin(id, f, now) /\ UNCHANGED wizardVars
    \/ \E now \in Nows : UpdateWrite(now) /\ UNCHANGED wizardVars
    \/ UpdateRename /\ UNCHANGED wizardVars
    \/ \E e \in CreateInputs, now \in Nows :
          /\ nextId <= Cardinality(PreIds) + MaxInserts
          /\ CreateBegin(e, now)
          /\ UNCHANGED wizardVars
    \/ \E now \in Nows : CreateWrite(now) /\ UNCHANGED wizardVars
    \/ Crash /\ UNCHANGED wizardVars

StoreSpec == StoreInit /\ [][StoreNext]_vars

\* The store under Create calls only, each followed by List.
CreateNext ==
    \/ \E e \in CreateInputs \cup FormInputs, now \in Nows :
          CreateBegin(e, now) /\ UNCHANGED wizardVars
    \/ \E now \in Nows : CreateWrite(now) /\ UNCHANGED wizardVars
    \/ Crash /\ UNCHANGED wizardVars
    \/ \E dirOk \in BOOLEAN : ListDir(dirOk) /\ UNCHANGED wizardVars

CreateSpec == StoreInit /\ [][CreateNext]_vars

\* ------------------------------------------------------------- Journal.View
\* What View renders: the loading line, the line for a journal without
\* entries, the confirmation banner over the list, the detail page, or the
\* list.
ViewKind ==
    IF ~ready THEN "loading"
    ELSE IF Len(Entries) = 0 THEN "empty"
    ELSE IF confirmingDelete THEN "confirm"
    ELSE IF detail /\ HasSelectedItem(VisibleItems(items), cursor) THEN "detail"
    ELSE "list"
\* The spot View puts into the banner or the detail header: that of
\* j.list.SelectedItem(), empty without one.
ViewSpot ==
    IF ViewKind \in {"confirm", "detail"} /\ HasSelectedItem(VisibleItems(items), cursor)
    THEN SelectedItem(VisibleItems(items), cursor).Spot
    ELSE ""
\* Journal.View(): it clears the detail flag when it gets as far as the
\* detail branch and finds no selected item.
View ==
    /\ out' = [Outcome("View", "", NoId, "", "", ViewKind) EXCEPT !.arg = ViewSpot]
    /\ detail' = (detail /\ ViewKind # "list")
    /\ UNCHANGED <<files, nextId, created, Entries, items, cursor, ready, width, height,
                   svc, confirmingDelete, deleteTargetID, filterVars, call>>

\* The Journal under the program's loop, View after every message, with
\* the filter in use: at most MaxFilterLen runes are typed into the filter
\* input and at most MaxPending filter runs are under way at a time.
MaxFilterLen == 1
MaxPending == 1
UIKeys == Keys \cup {FilterKey} \cup FilterRunes
UIMsgs == UIKeys \cup {Resize, FilterMatchesMsg}
\* msg is a rune that Update hands to the open filter input.
Typed(msg) ==
    /\ ready
    /\ filterState = Filtering
    /\ msg \in FilterRunes
    /\ ~(msg = "y" /\ confirmingDelete /\ deleteTargetID # NoId)
UIInit == Init /\ svc /\ files \in {EmptyDir, DirMixed, DirTies}
UINext ==
    \/ \E msg \in UIMsgs, w \in Widths, h \in Heights \ {0} :
          /\ out.op = "View"
          /\ Typed(msg) => (Len(filterText) < MaxFilterLen /\ Len(pending) < MaxPending)
          /\ Update(msg, w, h)
          /\ UNCHANGED <<call, wizardVars>>
    \/ out.op # "View" /\ View /\ UNCHANGED wizardVars

UISpec == UIInit /\ [][UINext]_vars

\* The entry wizard alone, no journal service and nothing stored.
WizardStart == Init /\ ~svc
WizardSpec == WizardStart /\ [][WizardNext]_vars

\* ------------------------------------------------------------- properties
\* The ids of the entries of a sequence.
IdsOf(s) == {s[i].ID : i \in 1..Len(s)}
\* A sequence minus the entries with that id, the others in their order.
Without(s, id) == SelectSeq(s, LAMBDA e : e.ID # id)
\* The step handles the key k.
KeyStep(k) == \E w \in Widths, h \in Heights : Update(k, w, h)
\* The last handler called Service.Delete.
DeleteCalled == out.call = "Delete"

C2_ConfirmRemovesExactlyTarget ==
    [][(KeyStep("y") /\ confirmingDelete /\ deleteTargetID # NoId /\ svc)
       => /\ deleteTargetID \in IdsOf(Entries)
          /\ Entries' = Without(Entries, deleteTargetID)
          /\ Len(Entries') = Len(Entries) - 1
          /\ out'.call = "Delete"]_vars
\* Delete failed, the file is still there, the entry is gone and others stay.
C2_Witness ==
    /\ DeleteCalled /\ out.callErr # ""
    /\ files[entryPath(out.id)].kind = "entry"
    /\ out.id \notin IdsOf(Entries)
    /\ Len(Entries) >= 2

\* C3: a Delete that fails during a confirmed delete shows in what Update
\* hands back to its caller: an error, or a command that carries it.
C3_DeleteFailureReported ==
    (DeleteCalled /\ out.callErr # "") => (out.err # "" \/ out.cmd # "nil")

\* C4: after a confirmed delete the list items are Entries, in its order.
C4_ItemsEqualEntriesAfterDelete == DeleteCalled => items = Entries

\* C5: "n", "x" or "delete" in confirmingDelete for entry X leads to the
\* list state, clears deleteTargetID, does not call Delete and leaves X in
\* Entries and in the store.
C5_RejectReturnsToList ==
    [][(confirmingDelete /\ (KeyStep("n") \/ KeyStep("x") \/ KeyStep("delete")))
       => /\ ~detail' /\ ~confirmingDelete'
          /\ deleteTargetID' = NoId
          /\ out'.call # "Delete"
          /\ deleteTargetID \in IdsOf(Entries')
          /\ files' = files]_vars

\* C6: Entries is in descending order of the ordering key: of two entries
\* with different keys the one with the later key comes first.
C6_EntriesDescending ==
    \A i, k \in 1..Len(Entries) :
        parse(Entries[i]) # parse(Entries[k]) =>
            (i < k <=> parse(Entries[i]) > parse(Entries[k]))
\* After an insertion and a confirmed delete, entries with different keys remain.
C6_Witness ==
    /\ DeleteCalled
    /\ Len(Entries) >= 2
    /\ \E i \in 1..Len(Entries) : Entries[i].ID \notin PreIds
    /\ parse(Entries[1]) # parse(Entries[Len(Entries)])

\* What a reader finds under the id of the Update in flight c when the
\* directory is fs: the file of the entry is the complete old or the
\* complete new entry, so Get returns one of the two and List returns one
\* entry with that id (it loads the file and does not pick up the temp file).
UpdateReaderSeesOldOrNew(fs, c) ==
    /\ fs[entryPath(c.id)].kind = "entry"
    /\ fs[entryPath(c.id)].e \in {c.old, c.new}
    /\ Get(fs, c.id) \in {Ok(c.old), Ok(c.new)}
    /\ Loadable(fs[entryPath(c.id)])
    /\ \A l \in List(fs) : Cardinality({i \in 1..Len(l) : l[i].ID = c.id}) = 1

\* C7: before and after every step taken while an Update is in flight
\* (its steps, its failures, a kill), the file of the entry holds the
\* complete old or the complete new entry.
C7_UpdateIsAtomicForReaders ==
    [][call.kind = "Update"
       => UpdateReaderSeesOldOrNew(files, call) /\ UpdateReaderSeesOldOrNew(files', call)]_vars
\* The temp file is written in full, the rename is still to come, and the
\* new entry differs from the old one.
C7_Witness ==
    /\ call.kind = "Update" /\ call.pc = "rename"
    /\ call.new # call.old
    /\ files[tmpPath(call.id)] # files[entryPath(call.id)]
    /\ files[tmpPath(call.id)].kind = "entry"

\* C8: an Update whose Get finds no file, finds a file that is no valid
\* entry, or whose mutate fails returns that error and changes no file.
C8_FailedUpdateChangesNothing ==
    [][\A id \in UpdateIds, f \in Mutators, now \in Nows :
          (/\ UpdateBegin(id, f, now)
           /\ \/ Get(files, id).err \in {"not exist", "unmarshal", "entry missing id"}
              \/ f = "fail")
          => /\ files' = files
             /\ call' = NoCall
             /\ out'.op = "Update"
             /\ out'.err = IF Get(files, id).err # "" THEN Get(files, id).err ELSE "mutate"]_vars
\* An Update has just failed in its mutate function, on a store that holds
\* entries.
C8_Witness ==
    /\ out.op = "Update" /\ out.err = "mutate"
    /\ \E id \in PreIds : Get(files, id).err = ""

\* C9: a successful Update(id, f) returns and stores, under the path of id,
\* an entry whose ID is id, and no step of an Update touches a file of
\* another id.
C9_UpdateKeepsIdentity ==
    [][call.kind = "Update"
       => /\ \A p \in Paths : p[1] # call.id => files'[p] = files[p]
          /\ (out'.op = "Update" /\ out'.err = "")
             => /\ out'.id = call.id
                /\ files'[entryPath(call.id)].kind = "entry"
                /\ files'[entryPath(call.id)].e.ID = call.id
                /\ files'[entryPath(call.id)].e = call.new
                /\ files'[tmpPath(call.id)] = Absent]_vars
\* An Update whose mutate function overwrote the ID has just succeeded.
C9_Witness ==
    /\ out.op = "Update" /\ out.err = "" /\ out.arg = "setID"
    /\ files[entryPath(out.id)].e.ID = out.id

\* What a reader finds under the id of the Create in flight c: the file
\* holds nothing yet or the complete entry.
CreateReaderSeesNothingOrAll(fs, c) ==
    \/ fs[entryPath(c.id)].kind = "absent"
    \/ fs[entryPath(c.id)] .kind = "entry" /\ fs[entryPath(c.id)].e = c.new
\* What a reader finds there in the code: no file, a truncated file or the
\* complete entry; Get fails or returns the complete entry, and List skips
\* the file or loads the complete entry.
CreateReaderNeverGetsPart(fs, c) ==
    /\ \/ fs[entryPath(c.id)].kind \in {"absent", "partial"}
       \/ fs[entryPath(c.id)].kind = "entry" /\ fs[entryPath(c.id)].e = c.new
    /\ Get(fs, c.id) \in {Fail("not exist"), Fail("unmarshal"), Ok(c.new)}
    /\ Loadable(fs[entryPath(c.id)]) => Loaded(fs[entryPath(c.id)]) = c.new
    /\ fs[tmpPath(c.id)].kind = "absent"

\* C10 as claimed: while a Create is in flight the file of the new entry
\* does not exist or holds the complete entry.
C10_CreateIsAtomicForReaders ==
    [][call.kind = "Create"
       => CreateReaderSeesNothingOrAll(files, call)
          /\ CreateReaderSeesNothingOrAll(files', call)]_vars
\* C10 as the code has it: Create writes the entry's own file in place, with
\* no temp file and no rename; the file may be truncated while the call is
\* in flight and stays so when the write fails or the process is killed,
\* and a reader gets an error, a skip or the complete entry, never a part.
C10_CreateWritesInPlace ==
    [][call.kind = "Create"
       => CreateReaderNeverGetsPart(files, call) /\ CreateReaderNeverGetsPart(files', call)]_vars
\* A Create is in flight and the file of its entry is truncated.
C10_Witness ==
    /\ call.kind = "Create"
    /\ files[entryPath(call.id)].kind = "partial"
    /\ Get(files, call.id) = Fail("unmarshal")

\* The *.json files that hold a whole entry with a non-empty ID.
ValidFiles(fs) ==
    {p \in Paths : p[2] = ExtJson /\ fs[p].kind = "entry" /\ fs[p].e.ID # NoId}
\* r is the entry e as List hands it out: e itself, CreatedAt filled if blank.
ListedAs(r, e) ==
    /\ r.ID = e.ID /\ r.Spot = e.Spot /\ r.SessionAt = e.SessionAt
    /\ IF e.CreatedAt.kind = "blank" THEN r.CreatedAt.kind = "rfc3339"
       ELSE r.CreatedAt = e.CreatedAt

\* C11: on a directory that can be read, List returns no error and exactly
\* one entry per *.json file holding an entry with an ID, whatever else is
\* in the directory, and the empty sequence for an empty directory; List
\* returns an error only when the directory cannot be read.
C11_ListSkipsWhatItCannotLoad ==
    /\ \A r \in ListCall(files, TRUE) :
          /\ r.err = ""
          /\ Len(r.entries) = Cardinality(ValidFiles(files))
          /\ \A p \in ValidFiles(files) :
                Cardinality({i \in 1..Len(r.entries) : ListedAs(r.entries[i], files[p].e)}) = 1
          /\ JsonFiles(files) = {} => r.entries = <<>>
    /\ \A r \in ListCall(files, FALSE) : r.err # ""
\* A directory with two entries, of which Create wrote one, an unreadable
\* file, a truncated file and the truncated file a failed Create left.
C11_Witness ==
    /\ Cardinality(ValidFiles(files)) = 2
    /\ \E p \in JsonFiles(files) : files[p].kind = "unreadable"
    /\ \E p \in JsonFiles(files) : files[p].kind = "partial" /\ p[1] \in PreIds
    /\ \E p \in JsonFiles(files) : files[p].kind = "partial" /\ p[1] \notin PreIds
    /\ out.op = "Create" /\ out.err = "write"
\* C12: the ids the successful Creates returned are pairwise distinct, and
\* every List of the directory holds each of them exactly once.
C12_CreatedIdsUniqueAndListed ==
    /\ \A i, k \in 1..Len(created) : i # k => created[i] # created[k]
    /\ \A l \in List(files) : \A i \in 1..Len(created) :
          Cardinality({k \in 1..Len(l) : l[k].ID = created[i]}) = 1
\* Two Creates have succeeded on a directory that held entries before.
C12_Witness ==
    /\ Len(created) = 2
    /\ Cardinality(ValidFiles(files)) >= 3
    /\ call = NoCall
\* a and b agree in every field, the session time taken as an instant.
SameRecord(a, b) ==
    /\ a.ID = b.ID /\ a.Spot = b.Spot /\ a.CreatedAt = b.CreatedAt
    /\ a.WaveSummary = b.WaveSummary /\ a.SessionAt = b.SessionAt
\* Create returns in this step, handing back call.new.
CreateReturns == call.kind = "Create" /\ out'.op = "Create" /\ out'.err = ""

C14_OneMode == ~(detail /\ confirmingDelete)
\* C15: deleteTargetID is non-empty only while confirmingDelete is set, so
\* every step that leaves confirmingDelete has cleared it.
C15_TargetOnlyWhileConfirming == deleteTargetID # NoId => confirmingDelete
\* The confirmation for an entry has just been left by "y".
C15_Witness ==
    /\ DeleteCalled /\ out.id # NoId
    /\ ~confirmingDelete /\ deleteTargetID = NoId
\* C16: "esc" while confirmingDelete is set cancels the pending delete in
\* that one step: confirmingDelete and deleteTargetID are cleared, the
\* controller is in list, and Entries and the store are as before.
C16_BackCancelsDelete ==
    [][(confirmingDelete /\ KeyStep("esc"))
       => /\ ~confirmingDelete' /\ deleteTargetID' = NoId
          /\ ~detail'
          /\ Entries' = Entries /\ files' = files
          /\ out'.call # "Delete"]_vars
\* The step is a call of Persist.
PersistStep == \E e \in PersistInputs, now \in Nows : Persist(e, now)

\* C17: a Persist without a store, or whose Create fails, returns an error
\* and leaves Entries and the list as they were.
C17_FailedPersistInsertsNothing ==
    [][(out'.op = "Persist" /\ (~svc \/ out'.callErr # "") /\ PersistStep)
       => /\ out'.err # ""
          /\ Entries' = Entries /\ items' = items /\ cursor' = cursor]_vars
\* Create failed after writing a part of the file, under an initialised
\* list with entries.
C17_Witness ==
    /\ out.op = "Persist" /\ out.callErr = "write" /\ out.err = "write"
    /\ files[entryPath(out.id)].kind = "partial"
    /\ ready /\ Len(items) >= 1
\* C18: after a successful Persist, Entries holds the entry Create stored,
\* under the id Create assigned, exactly once and at its place in the
\* descending order, the other entries are as before, and the items of an
\* initialised list are Entries.
C18_PersistInsertsInOrder ==
    [][(out'.op = "Persist" /\ out'.err = "" /\ PersistStep)
       => /\ out'.id \notin IdsOf(Entries)
          /\ Cardinality({i \in 1..Len(Entries') : Entries'[i].ID = out'.id}) = 1
          /\ \A i \in 1..Len(Entries') :
                Entries'[i].ID = out'.id => Entries'[i] = Get(files', out'.id).e
          /\ Without(Entries', out'.id) = Entries
          /\ \A i, k \in 1..Len(Entries') :
                i < k => parse(Entries'[i]) >= parse(Entries'[k])
          /\ ready => items' = Entries']_vars
\* Persist has put an entry behind a newer one, under an initialised list.
C18_Witness ==
    /\ out.op = "Persist" /\ out.err = ""
    /\ ready /\ Len(Entries) >= 3
    /\ Entries[1].ID # out.id
    /\ items = Entries
\* The place of the entry with that id in a sequence (0 when it is not in).
PlaceOf(s, id) ==
    IF id \in IdsOf(s) THEN CHOOSE i \in 1..Len(s) : s[i].ID = id ELSE 0

\* C19: of two entries with equal ordering keys, the one inserted first
\* (loaded at the start, or created earlier) is in front of the other in
\* Entries, in every state after both are in: after later insertions,
\* deletions and sorts.
C19_TiesKeepInsertionOrder ==
    /\ \A id \in PreIds, k \in 1..Len(created) :
        (/\ id \in IdsOf(Entries) /\ created[k] \in IdsOf(Entries)
         /\ parse(Entries[PlaceOf(Entries, id)])
              = parse(Entries[PlaceOf(Entries, created[k])]))
        => PlaceOf(Entries, id) < PlaceOf(Entries, created[k])
    /\ \A i, k \in 1..Len(created) :
        (/\ i < k
         /\ created[i] \in IdsOf(Entries) /\ created[k] \in IdsOf(Entries)
         /\ parse(Entries[PlaceOf(Entries, created[i])])
              = parse(Entries[PlaceOf(Entries, created[k])]))
        => PlaceOf(Entries, created[i]) < PlaceOf(Entries, created[k])
\* Two entries with the same session time were inserted one after the
\* other, and another entry has been deleted since.
C19_Witness ==
    /\ Len(created) = 2
    /\ created[1] \in IdsOf(Entries) /\ created[2] \in IdsOf(Entries)
    /\ parse(Entries[PlaceOf(Entries, created[1])]) = parse(Entries[PlaceOf(Entries, created[2])])
    /\ DeleteCalled /\ out.id \notin IdsOf(Entries)
\* The sequences sortEntries is tried on: Entries, the list items (which a
\* delete leaves in another order), and Entries with a new entry appended.
SortInputs ==
    {Entries, items} \cup {Append(Entries, [e EXCEPT !.ID = nextId]) : e \in TieInputs}

\* C20: sorting what sortEntries returned changes nothing, and sorting
\* Entries, which is kept sorted, changes nothing.
C20_SortIsIdempotent ==
    /\ \A s \in SortInputs : sortEntries(sortEntries(s)) = sortEntries(s)
    /\ sortEntries(Entries) = Entries
\* The items are in another order than Entries, and two entries tie.
C20_Witness ==
    /\ Len(Entries) >= 3 /\ Len(items) = Len(Entries) /\ items # Entries
    /\ sortEntries(items) # items
    /\ \E i, k \in 1..Len(Entries) : i # k /\ parse(Entries[i]) = parse(Entries[k])

\* C21: a Create of an entry whose spot is empty or only blanks returns the
\* "spot required" error and writes nothing: every file of the directory
\* is as it was before the call, and no call is left in flight.
C21_BlankSpotCreateWritesNothing ==
    [][\A e \in CreateInputs \cup FormInputs, now \in Nows :
          (e.Spot \in BlankSpots /\ CreateBegin(e, now))
              => /\ out'.op = "Create"
                 /\ out'.err = "spot required"
                 /\ files' = files
                 /\ call' = NoCall]_vars
\* A Create with a blank spot was refused on a directory that earlier
\* Creates had written to.
C21_Witness ==
    /\ out.op = "Create"
    /\ out.err = "spot required"
    /\ Len(created) > 0

\* The id a Create step works under: that of the call in flight, or of the
\* call the step starts.
CreateStepId == IF call.kind = "Create" THEN call.id ELSE call'.id
\* C22: Create gives the entry a fresh id whatever ID the caller supplied:
\* when the call starts no file exists under the id and no stored entry
\* carries it, it is not the ID of the caller's entry, every step of the
\* call leaves all files other than the one of the fresh id as they were,
\* and the entry returned carries the fresh id.
C22_CreateAllocatesFreshId ==
    [][(call.kind = "Create" \/ call'.kind = "Create") =>
          /\ \A p \in Paths : p # entryPath(CreateStepId) => files'[p] = files[p]
          /\ (out'.op = "Create" /\ out'.err = "") => out'.id = CreateStepId
          /\ call.kind # "Create" =>
                /\ CreateStepId \in Ids
                /\ files[entryPath(CreateStepId)].kind = "absent"
                /\ \A p \in Paths :
                      Unmarshal(files[p]).ok => Unmarshal(files[p]).e.ID # CreateStepId
                /\ \A e \in CreateInputs \cup FormInputs, now \in Nows :
                      CreateBegin(e, now) => e.ID # CreateStepId]_vars
\* A Create called with the ID of the stored entry 1 returned another id,
\* and entry 1 is still what Get(1) returns.
C22_Witness ==
    /\ out.op = "Create" /\ out.err = ""
    /\ out.id \notin PreIds
    /\ files[entryPath(out.id)].kind = "entry"
    /\ files[entryPath(out.id)].e.Spot = "A"
    /\ files[entryPath(out.id)].e.Loc = "UTC"
    /\ Get(files, 1).err = ""
    /\ Get(files, 1).e.ID = 1

\* The errors of Get by kind: the os.ReadFile error of a missing file
\* (fs.ErrNotExist), and the errors for a file that is there but yields no
\* entry with an ID (it cannot be read, is no JSON entry, has no ID).
NotFoundErrs == {"not exist"}
CorruptErrs == {"permission", "unmarshal", "entry missing id"}
\* The file under id holds an entry with an ID, as written.
HoldsRecord(fs, id) ==
    /\ fs[entryPath(id)].kind = "entry"
    /\ fs[entryPath(id)].e.ID # NoId
\* C23: for every non-empty id, Get fails with the not-found error exactly
\* when no file exists under the id, and with one of the corrupt-file
\* errors exactly when a file exists that holds no entry with an ID; the two
\* kinds of error differ, Get never returns an entry without ID, and it
\* returns the stored entry in the remaining case. An Update on an id for
\* which Get fails returns that same error, changes no file and starts no
\* write.
C23_GetTellsMissingFromCorrupt ==
    /\ [](\A id \in Ids :
            LET g == Get(files, id)
                f == files[entryPath(id)]
            IN  /\ (g.err \in NotFoundErrs) <=> (f.kind = "absent")
                /\ (g.err \in CorruptErrs) <=> (f.kind # "absent" /\ ~HoldsRecord(files, id))
                /\ (g.err = "") <=> HoldsRecord(files, id)
                /\ g.err = "" => (g.e.ID # NoId /\ g.e = f.e)
                /\ NotFoundErrs \cap CorruptErrs = {})
    /\ [][\A id \in UpdateIds, f \in Mutators, now \in Nows :
            (Get(files, id).err # "" /\ UpdateBegin(id, f, now))
                => /\ out'.op = "Update"
                   /\ out'.err = Get(files, id).err
                   /\ files' = files
                   /\ call' = NoCall]_vars
\* An Update on the id of a file whose entry has no ID failed as Get does,
\* in a directory where another id has no file at all.
C23_Witness ==
    /\ out.op = "Update"
    /\ out.err = "entry missing id"
    /\ \E id \in Ids : Get(files, id).err = "entry missing id"
    /\ \E id \in Ids : Get(files, id).err = "not exist"
    /\ \E id \in Ids : Get(files, id).err = ""

\* The stored entry under id has no CreatedAt.
StoredWithoutCreatedAt(fs, id) ==
    HoldsRecord(fs, id) /\ IsBlankCreatedAt(fs[entryPath(id)].e.CreatedAt)
\* C24: a List call leaves every file as it was. An entry stored without
\* CreatedAt is in every list the call can return, once, with CreatedAt
\* set to the formatted mtime of its file; after the call its file is
\* unchanged and Get still returns it without CreatedAt.
C24_ListIsReadOnly ==
    [][out'.op = "List" =>
          /\ files' = files
          /\ \A id \in Ids : StoredWithoutCreatedAt(files, id) =>
                /\ out'.err = "" =>
                      \A l \in List(files) :
                         /\ Cardinality({i \in 1..Len(l) :
                                           l[i].ID = files[entryPath(id)].e.ID}) = 1
                         /\ \A i \in 1..Len(l) :
                               l[i].ID = files[entryPath(id)].e.ID =>
                                  l[i].CreatedAt = FormatRFC3339(files[entryPath(id)].mtime)
                /\ Get(files', id).err = ""
                /\ IsBlankCreatedAt(Get(files', id).e.CreatedAt)]_vars
\* List returned without error over a directory that holds an entry
\* without CreatedAt, after a Create.
C24_Witness ==
    /\ out.op = "List"
    /\ out.err = ""
    /\ Len(created) > 0
    /\ \E id \in Ids : StoredWithoutCreatedAt(files, id)

\* C28: every entry that a step of Create or Update puts into a file (the
\* temp file included) has a CreatedAt that is not blank; Create writes the
\* caller's CreatedAt when that is not blank and the formatted current time
\* otherwise; and the stored entry that a successful Create or Update
\* returned has a CreatedAt, also when the mutator blanked it.
C28_WrittenRecordsHaveCreatedAt ==
    [][/\ \A p \in Paths :
             (files'[p] # files[p] /\ files'[p].kind = "entry")
                 => ~IsBlankCreatedAt(files'[p].e.CreatedAt)
       /\ \A e \in CreateInputs, now \in Nows :
             (CreateBegin(e, now) /\ call'.kind = "Create")
                 => call'.new.CreatedAt = IF e.CreatedAt = CreatedAtBlank
                                          THEN CreatedAtOf(now) ELSE e.CreatedAt
       /\ (out'.op \in {"Create", "Update"} /\ out'.err = "" /\ out'.id # NoId)
             => /\ HoldsRecord(files', out'.id)
                /\ ~StoredWithoutCreatedAt(files', out'.id)]_vars
\* An Update whose mutator blanked CreatedAt succeeded, on an entry that
\* had a CreatedAt or on one that had none.
C28_Witness ==
    /\ out.op = "Update"
    /\ out.err = ""
    /\ out.arg = "edit"
    /\ HoldsRecord(files, out.id)
    /\ files[entryPath(out.id)].e.Spot = "B"

\* The list has a selected item.
HasSelection == HasSelectedItem(VisibleItems(items), cursor)
\* What "enter" and "esc" leave alone: Entries, the list items, the store,
\* the cursor, the filter (state, text, matches, runs under way) and the
\* delete target.
SameListState == UNCHANGED <<Entries, items, files, cursor, filterVars, deleteTargetID>>
\* C25: with the list built, "enter" in list mode (neither flag set) sets
\* detail and "esc" in detail mode clears it; either way the controller is
\* not confirming, and Entries, the items, the store, the cursor and the
\* filter are as before, so "enter" then "esc" is back at the list state it
\* started from, applied filter included.
C25_OpenAndBackChangeOnlyMode ==
    [][/\ (ready /\ ~detail /\ ~confirmingDelete /\ out'.op = "Update" /\ KeyStep("enter"))
            => (detail' /\ ~confirmingDelete' /\ SameListState)
       /\ (detail /\ ~confirmingDelete /\ out'.op = "Update" /\ KeyStep("esc"))
            => (~detail' /\ ~confirmingDelete' /\ SameListState)]_vars
\* Detail was opened on a selected item of a list with an applied filter.
C25_Witness ==
    /\ out.op = "Update" /\ out.cmd = "nil"
    /\ detail /\ ~confirmingDelete
    /\ filterState = FilterApplied /\ Len(filterText) > 0
    /\ HasSelection

\* C26: "x" or "delete" in list mode without a selected item (no items, or
\* a filter with no visible item) changes nothing: both flags stay clear,
\* deleteTargetID stays empty, Entries, the items, the store, the cursor
\* and the filter are as before.
C26_DeleteWithoutSelectionIsNoOp ==
    [][(ready /\ ~detail /\ ~confirmingDelete /\ ~HasSelection /\ out'.op = "Update"
            /\ \E k \in {"x", "delete"} : KeyStep(k))
         => /\ ~detail' /\ ~confirmingDelete'
            /\ deleteTargetID = NoId /\ deleteTargetID' = NoId
            /\ SameListState]_vars
\* The controller is in list mode after a key that returned no command,
\* over a journal with entries of which the filter shows none.
C26_Witness ==
    /\ out.op = "Update" /\ out.cmd = "nil" /\ out.call = ""
    /\ ready /\ ~detail /\ ~confirmingDelete /\ deleteTargetID = NoId
    /\ Len(Entries) > 0
    /\ filterState # Unfiltered
    /\ ~HasSelection

\* C27: a View call that finds the detail flag set (outside a
\* confirmation) and no selected item renders no detail page and leaves the
\* detail flag clear.
C27_DetailFallsBackToList ==
    [][(out'.op = "View" /\ detail /\ ~confirmingDelete /\ ~HasSelection)
         => (out'.cmd # "detail" /\ ~detail')]_vars

\* C29: while confirmingDelete stays set no step changes deleteTargetID
\* (cursor keys, filter keys and messages, resizes, View);
\* "x" outside a confirmation captures the ID of the selected item; and
\* "y" in a confirmation calls Delete for the captured id and removes that
\* entry and no other from Entries, wherever the cursor is by then.
C29_ConfirmDeletesCapturedTarget ==
    [][/\ (confirmingDelete /\ confirmingDelete') => deleteTargetID' = deleteTargetID
       /\ (~confirmingDelete /\ confirmingDelete') =>
             /\ HasSelectedItem(VisibleItems(ensureItems(width', height')), cursor)
             /\ deleteTargetID' =
                   SelectedItem(VisibleItems(ensureItems(width', height')), cursor).ID
       /\ (confirmingDelete /\ deleteTargetID # NoId /\ out'.op = "Update" /\ KeyStep("y")) =>
             /\ out'.call = "Delete"
             /\ out'.id = deleteTargetID
             /\ Entries' = Without(Entries, deleteTargetID)]_vars
\* "y" has deleted stored entry 2, the first of the list, with the cursor
\* on the second place.
C29_Witness ==
    /\ out.op = "Update" /\ DeleteCalled
    /\ out.id = 2
    /\ cursor = 2
    /\ IdsOf(Entries) # {}
    /\ 2 \notin IdsOf(Entries)

\* The spot of the entry of Entries with that id.
SpotOf(id) == (CHOOSE e \in {Entries[i] : i \in 1..Len(Entries)} : e.ID = id).Spot
\* C30: whenever View has rendered the confirmation banner, the spot in it
\* is the spot of the entry whose ID is deleteTargetID.
C30_PromptNamesTarget ==
    (out.op = "View" /\ out.cmd = "confirm")
        => /\ deleteTargetID \in IdsOf(Entries)
           /\ out.arg = SpotOf(deleteTargetID)

\* C31: while the filter input is open no step sets confirmingDelete or
\* detail, and none clears confirmingDelete or removes an entry: the keys
\* "x", "y" and "n" go to the filter input.
C31_FilterInputTakesKeys ==
    [][(ready /\ filterState = Filtering /\ out'.op = "Update") =>
          /\ confirmingDelete' = confirmingDelete
          /\ detail' => detail
          /\ Entries' = Entries]_vars

\* C32: in a Journal without service, "y" in a confirmation for an entry
\* clears confirmingDelete and deleteTargetID and changes nothing else:
\* Entries (the target included), the list items, the cursor, the detail
\* flag and the files are as before, and no store call is made.
C32_ConfirmWithoutServiceKeepsEntry ==
    [][(~svc /\ confirmingDelete /\ deleteTargetID # NoId
            /\ out'.op = "Update" /\ KeyStep("y"))
         => /\ ~confirmingDelete'
            /\ deleteTargetID' = NoId
            /\ deleteTargetID \in IdsOf(Entries')
            /\ out'.call = ""
            /\ UNCHANGED <<Entries, items, cursor, detail, files, filterVars>>]_vars
\* A Journal without service is back in list mode, after a key that
\* returned no command, with the list built and an entry selected.
C32_Witness ==
    /\ ~svc /\ ready
    /\ out.op = "Update" /\ out.cmd = "nil"
    /\ ~confirmingDelete /\ deleteTargetID = NoId /\ ~detail
    /\ HasSelectedItem(items, cursor)

\* The IDs of a sequence of entries, in its order.
IdSeq(s) == [i \in 1..Len(s) |-> s[i].ID]
\* The IDs of the entries a List of the directory returns.
ListedIds(fs) == {fs[p].e.ID : p \in {q \in JsonFiles(fs) : Loadable(fs[q])}}
\* C33: whenever the store holds exactly the entries that are in Entries
\* (as after Persist calls and deletes that all succeeded), a Journal built
\* anew from the store (the entries of List, sorted by sortEntries) has the
\* entries of Entries in the order of Entries, whichever list List
\* returns.
C33_ReloadGivesSameOrder ==
    (ListedIds(files) = IdsOf(Entries))
        => \A l \in List(files) : IdSeq(sortEntries(l)) = IdSeq(Entries)

\* C34: in the entry wizard a model becomes eligible for persistence
\* (IsDoneAndUnpersisted turns true) only in an UpdateModel step for "y" or
\* "enter" on that same model, whose form had completed before the step;
\* "n" or "esc" at the review step puts a new draft in its place, and
\* neither the new draft nor the discarded model was ever eligible; a
\* model MarkPersisted was called on is not eligible from then on; and no
\* model becomes eligible a second time.
BecomesEligible ==
    /\ IsDoneAndUnpersisted(draft')
    /\ ~(IsDoneAndUnpersisted(draft) /\ draft'.addr = draft.addr)
C34_EligibleOnlyAfterConfirmAndOnce ==
    /\ [](draft.addr \in marked => ~IsDoneAndUnpersisted(draft))
    /\ [][/\ BecomesEligible =>
                /\ out'.op = "UpdateModel" /\ out'.arg \in ConfirmKeys
                /\ draft'.addr = draft.addr
                /\ draft.completed /\ draft.formState = StateCompleted
                /\ draft.addr \notin eligible
          /\ (out'.op = "UpdateModel" /\ out'.arg \in DiscardKeys /\ atReview(draft)) =>
                /\ draft'.addr \notin {NoAddr, draft.addr}
                /\ IsDraft(draft') /\ ~draft'.confirmed /\ ~draft'.persisted
                /\ draft'.addr \notin eligible'
                /\ draft.addr \notin eligible']_vars
\* A second model, put in place by a discard, was completed, confirmed and
\* then marked persisted.
C34_Witness ==
    /\ draft.addr > 1
    /\ draft.completed /\ draft.confirmed /\ draft.persisted
    /\ draft.addr \in eligible /\ draft.addr \in marked

====
